---- MODULE Spec2Model ----
(***************************************************************************)
(* A model of lintAndFormatChanges/Utils/FileHandler.py.                   *)
(*                                                                         *)
(* Two subsystems share the module:                                        *)
(*   - the revision-directory allocator createTmpDir (the spec's           *)
(*     createRevisionDir), run by several invocations of one user that     *)
(*     interleave at the granularity of its filesystem calls (SpecAlloc);  *)
(*   - the file-set resolution functions getMergeBase, getChangedFiles,    *)
(*     getAllTrackedFiles, getGlobsFromFile, getFormattablePaths,          *)
(*     getFilesToFormat and getTrackedFormattablePaths, run by one thread  *)
(*     while files are deleted from the working tree between its steps     *)
(*     (SpecResolve).                                                      *)
(*                                                                         *)
(* Strings whose content the code inspects (directory names, command       *)
(* output, glob-list files, glob patterns, paths) are sequences of         *)
(* one-character strings, so that int(), str(), strip(), split("\n"),      *)
(* Path() and glob() are computed rather than assumed.                     *)
(***************************************************************************)
EXTENDS Integers, Sequences, FiniteSets, TLC

VARIABLES
    \* ---- allocator: the filesystem under <baseDir>
    userDirExists,  \* whether <baseDir>/<username> exists
    entries,        \* names of the entries of <baseDir>/<username>
    \* ---- allocator: one invocation of createTmpDir per process at a time
    pc,             \* position of each process: "idle", "iterdir", "mkdir"
    seen,           \* the names userTmpDir.iterdir() listed for the invocation
    revision,       \* the local `revision` of the invocation
    outcome,        \* how the last invocation of the process ended
    diag,           \* the sub-directory named by the diagnostic on stderr
    \* ---- allocator: history
    entries0,       \* the entries before the first invocation
    created,        \* numbers of the directories created, in order of creation
    calls,          \* invocations started so far
    \* ---- resolution: the working tree and the configuration files
    fs,             \* the paths that exist on disk (besides ".")
    allowText,      \* content of config/allowlist.txt
    denyText,       \* content of config/denylist.txt
    \* ---- resolution: the running operation and its locals
    op,             \* the public function invoked, or "idle"
    rpc,            \* position inside the operation
    arg,            \* its revision argument (changedSince / start / fromCommit)
    mergeBase,      \* local `mergeBase` of getFilesToFormat
    changed,        \* local `changed` / `changedFiles`
    tracked,        \* local `tracked` / `trackedFiles`
    which,          \* the glob list getGlobsFromFile is resolving
    globStrings,    \* local `globStrings`
    idx,            \* index of the next glob string of the loop
    pathSet,        \* local `pathSet`
    allowlistPaths, \* local `allowlistPaths`
    denylistPaths,  \* local `denylistPaths`
    formattablePaths, \* value returned by getFormattablePaths
    result,         \* what the operation returned or raised
    \* ---- resolution: history
    log,            \* external calls made by the operation, in order
    failedCmd,      \* the version-control command that exited non-zero
    diffNames,      \* the paths the diff named
    fsAtStart,      \* the paths on disk when the operation was invoked
    missingAtReturn \* returned paths that were not on disk at the return

allocVars == <<userDirExists, entries, pc, seen, revision, outcome, diag,
               entries0, created, calls>>

resolveVars == <<fs, allowText, denyText, op, rpc, arg, mergeBase, changed,
                 tracked, which, globStrings, idx, pathSet, allowlistPaths,
                 denylistPaths, formattablePaths, result, log, failedCmd,
                 diffNames, fsAtStart, missingAtReturn>>

vars == <<allocVars, resolveVars>>

----------------------------------------------------------------------------
(* Bounds *)

\* concurrent invocations of createTmpDir by the same user
NumProcs == 3

\* invocations of createTmpDir started in one behaviour
MaxCalls == 4

Procs == 1 .. NumProcs

----------------------------------------------------------------------------
(* Text helpers *)

Digits == {"0", "1", "2", "3", "4", "5", "6", "7", "8", "9"}

DigitVal(c) ==
    CASE c = "0" -> 0 [] c = "1" -> 1 [] c = "2" -> 2 [] c = "3" -> 3
      [] c = "4" -> 4 [] c = "5" -> 5 [] c = "6" -> 6 [] c = "7" -> 7
      [] c = "8" -> 8 [] c = "9" -> 9

DigitChar(d) ==
    CASE d = 0 -> "0" [] d = 1 -> "1" [] d = 2 -> "2" [] d = 3 -> "3"
      [] d = 4 -> "4" [] d = 5 -> "5" [] d = 6 -> "6" [] d = 7 -> "7"
      [] d = 8 -> "8" [] d = 9 -> "9"

Range(s) == {s[i] : i \in 1 .. Len(s)}

\* The part of a numeral after its optional sign.
Unsigned(s) == IF s # <<>> /\ s[1] \in {"+", "-"} THEN Tail(s) ELSE s

\* Whether int(s) returns rather than raising ValueError: an optional sign,
\* then decimal digits, single underscores allowed between digits. (Names
\* with surrounding whitespace or non-ASCII digits are outside the alphabet
\* of the modelled names.)
IsInt(s) ==
    LET b == Unsigned(s) IN
    /\ b # <<>>
    /\ \A i \in 1 .. Len(b) : b[i] \in Digits \cup {"_"}
    /\ b[1] # "_"
    /\ b[Len(b)] # "_"
    /\ \A i \in 1 .. Len(b) - 1 : ~(b[i] = "_" /\ b[i + 1] = "_")

RECURSIVE DigitsValue(_, _)
DigitsValue(b, acc) ==
    IF b = <<>> THEN acc
    ELSE IF b[1] = "_" THEN DigitsValue(Tail(b), acc)
    ELSE DigitsValue(Tail(b), 10 * acc + DigitVal(b[1]))

\* int(s) for a name on which it does not raise.
IntOf(s) ==
    IF s[1] = "-" THEN 0 - DigitsValue(Unsigned(s), 0)
    ELSE DigitsValue(Unsigned(s), 0)

RECURSIVE NatStr(_)
NatStr(n) ==
    IF n < 10 THEN <<DigitChar(n)>>
    ELSE Append(NatStr(n \div 10), DigitChar(n % 10))

\* str(n) for an int.
Str(n) == IF n < 0 THEN <<"-">> \o NatStr(0 - n) ELSE NatStr(n)

----------------------------------------------------------------------------
(* The allocator: createTmpDir *)

Scratch == <<"s", "c", "r", "a", "t", "c", "h">>

\* Names the per-user directory may hold before the first invocation.
InitNames ==
    { <<"0">>, <<"1">>, <<"3">>, <<"0", "7">>, <<"-", "3">>, <<"-">>, Scratch }

NoOutcome == [kind |-> "none", rev |-> 0, name |-> <<>>]

\* The list `subdirs` built by the loop: int(subdir.name) of each entry, an
\* entry at which int() raises adding nothing. iterdir() yields the entries
\* in arbitrary order; one order is fixed here, since the code reads only
\* the emptiness and the maximum of the list.
RECURSIVE Subdirs(_)
Subdirs(listing) ==
    IF listing = {} THEN <<>>
    ELSE LET n == CHOOSE x \in listing : TRUE
             rest == Subdirs(listing \ {n})
         IN  IF IsInt(n) THEN Append(rest, IntOf(n)) ELSE rest

\* Python's max() of a non-empty list.
RECURSIVE ListMax(_)
ListMax(l) ==
    IF Len(l) = 1 THEN l[1]
    ELSE LET m == ListMax(Tail(l)) IN IF l[1] > m THEN l[1] ELSE m

\* A plausible slip: the revision is the count of the sub-directories.
NextRevisionByCount(subdirs) == Len(subdirs)

\* A plausible slip: the revision is the first number not in use.
NextRevisionFillGap(subdirs) ==
    CHOOSE n \in 0 .. Len(subdirs) :
        /\ n \notin Range(subdirs)
        /\ \A m \in 0 .. n - 1 : m \in Range(subdirs)

\* revision = max(subdirs) + 1 if subdirs else 0
NextRevision(subdirs) == IF subdirs # <<>> THEN ListMax(subdirs) + 1 ELSE 0

\* A plausible slip: the except clause skips the entry instead of raising.
UnparsedSkipped(listing) == {}

\* The entries on which int(subdir.name) raises ValueError.
Unparsed(listing) == {n \in listing : ~IsInt(n)}

\* A plausible slip: mkdir(exist_ok=True).
MkdirExistOk(name, dir) == FALSE

\* Whether Path.mkdir() raises FileExistsError.
MkdirRaises(name, dir) == name \in dir

\* userTmpDir = baseDir / getpass.getuser()
\* userTmpDir.mkdir(parents=True, exist_ok=True)
Call(p) ==
    /\ pc[p] = "idle"
    /\ calls < MaxCalls
    /\ calls' = calls + 1
    /\ userDirExists' = TRUE
    /\ pc' = [pc EXCEPT ![p] = "iterdir"]
    /\ seen' = [seen EXCEPT ![p] = {}]
    /\ revision' = [revision EXCEPT ![p] = 0]
    /\ outcome' = [outcome EXCEPT ![p] = NoOutcome]
    /\ diag' = [diag EXCEPT ![p] = <<>>]
    /\ UNCHANGED <<entries, entries0, created>>

\* The loop over userTmpDir.iterdir() and the choice of the revision. The
\* first entry that fails to parse ends the loop with the ValueError; the
\* order of enumeration being arbitrary, it can be any unparsable entry.
Scan(p) ==
    /\ pc[p] = "iterdir"
    /\ seen' = [seen EXCEPT ![p] = entries]
    /\ \/ /\ Unparsed(entries) # {}
          /\ \E bad \in Unparsed(entries) :
                /\ diag' = [diag EXCEPT ![p] = bad]
                /\ outcome' = [outcome EXCEPT ![p] =
                       [kind |-> "ValueError", rev |-> 0, name |-> bad]]
          /\ pc' = [pc EXCEPT ![p] = "idle"]
          /\ UNCHANGED revision
       \/ /\ Unparsed(entries) = {}
          /\ revision' = [revision EXCEPT ![p] = NextRevision(Subdirs(entries))]
          /\ pc' = [pc EXCEPT ![p] = "mkdir"]
          /\ UNCHANGED <<diag, outcome>>
    /\ UNCHANGED <<userDirExists, entries, entries0, created, calls>>

\* revisionDir = userTmpDir / str(revision); revisionDir.mkdir(); return
Mkdir(p) ==
    /\ pc[p] = "mkdir"
    /\ LET name == Str(revision[p]) IN
       IF MkdirRaises(name, entries)
       THEN /\ outcome' = [outcome EXCEPT ![p] =
                   [kind |-> "FileExistsError", rev |-> revision[p], name |-> name]]
            /\ UNCHANGED <<entries, created>>
       ELSE /\ entries' = entries \cup {name}
            /\ created' = Append(created, revision[p])
            /\ outcome' = [outcome EXCEPT ![p] =
                   [kind |-> "ok", rev |-> revision[p], name |-> name]]
    /\ pc' = [pc EXCEPT ![p] = "idle"]
    /\ UNCHANGED <<userDirExists, seen, revision, diag, entries0, calls>>

ResolveIdle ==
    /\ fs = {}
    /\ allowText = <<>>
    /\ denyText = <<>>
    /\ op = "idle"
    /\ rpc = "idle"
    /\ arg = <<>>
    /\ mergeBase = <<>>
    /\ changed = <<>>
    /\ tracked = <<>>
    /\ which = "allowlist"
    /\ globStrings = <<>>
    /\ idx = 1
    /\ pathSet = {}
    /\ allowlistPaths = {}
    /\ denylistPaths = {}
    /\ formattablePaths = {}
    /\ result = [kind |-> "none", ref |-> <<>>, list |-> <<>>, set |-> {}]
    /\ log = <<>>
    /\ failedCmd = "none"
    /\ diffNames = <<>>
    /\ fsAtStart = {}
    /\ missingAtReturn = {}

AllocIdle ==
    /\ pc = [p \in Procs |-> "idle"]
    /\ seen = [p \in Procs |-> {}]
    /\ revision = [p \in Procs |-> 0]
    /\ outcome = [p \in Procs |-> NoOutcome]
    /\ diag = [p \in Procs |-> <<>>]
    /\ created = <<>>
    /\ calls = 0

InitAlloc ==
    /\ userDirExists \in BOOLEAN
    /\ entries \in SUBSET InitNames
    /\ ~userDirExists => entries = {}
    /\ entries0 = entries
    /\ AllocIdle
    /\ ResolveIdle

NextAlloc ==
    \E p \in Procs :
        \/ Call(p) /\ UNCHANGED resolveVars
        \/ Scan(p) /\ UNCHANGED resolveVars
        \/ Mkdir(p) /\ UNCHANGED resolveVars

SpecAlloc == InitAlloc /\ [][NextAlloc]_vars

----------------------------------------------------------------------------
(* The file-set resolution functions *)

NL == "\n"

Whitespace == {" ", NL, "\t", "\r"}

RECURSIVE LStrip(_)
LStrip(s) == IF s # <<>> /\ s[1] \in Whitespace THEN LStrip(Tail(s)) ELSE s

RECURSIVE RStrip(_)
RStrip(s) ==
    IF s # <<>> /\ s[Len(s)] \in Whitespace
    THEN RStrip(SubSeq(s, 1, Len(s) - 1))
    ELSE s

\* bytes.strip() / str.strip()
Strip(s) == RStrip(LStrip(s))

\* s.split("\n"): the pieces between the newlines; never an empty list, the
\* empty string giving [""].
RECURSIVE SplitLines(_)
SplitLines(s) ==
    IF \A i \in 1 .. Len(s) : s[i] # NL THEN <<s>>
    ELSE LET k == CHOOSE i \in 1 .. Len(s) :
                      s[i] = NL /\ \A j \in 1 .. i - 1 : s[j] # NL
         IN  <<SubSeq(s, 1, k - 1)>> \o SplitLines(SubSeq(s, k + 1, Len(s)))

Dot == <<".">>

\* Path(pathString): the empty string is the current directory, Path(".").
\* (The command prints normalised relative paths, which Path() keeps.)
ToPath(s) == IF s = <<>> THEN Dot ELSE s

\* What the version-control command prints for a list of names: one per line.
RECURSIVE Stdout(_)
Stdout(names) ==
    IF names = <<>> THEN <<>>
    ELSE Head(names) \o <<NL>> \o Stdout(Tail(names))

\* Text of a glob-list file holding the given lines, newline-separated.
RECURSIVE JoinLines(_)
JoinLines(lines) ==
    IF lines = <<>> THEN <<>>
    ELSE IF Len(lines) = 1 THEN lines[1]
    ELSE Head(lines) \o <<NL>> \o JoinLines(Tail(lines))

\* fnmatch of a name against a pattern: "*" stands for any run of
\* characters, "?" for one character, any other character for itself.
RECURSIVE FnMatch(_, _)
FnMatch(pat, name) ==
    IF pat = <<>> THEN name = <<>>
    ELSE IF pat[1] = "*"
         THEN \/ FnMatch(Tail(pat), name)
              \/ name # <<>> /\ FnMatch(pat, Tail(name))
    ELSE /\ name # <<>>
         /\ pat[1] = "?" \/ pat[1] = name[1]
         /\ FnMatch(Tail(pat), Tail(name))

HasMagic(pat) == \E i \in 1 .. Len(pat) : pat[i] \in {"*", "?", "["}

\* glob(globString, recursive=True) in a working tree without
\* sub-directories: the empty pattern matches nothing, a pattern without
\* wildcards matches the path it names when that exists, a wildcard pattern
\* matches the existing names it fits, dot-files only when it starts with a
\* dot.
Glob(pat, disk) ==
    IF pat = <<>> THEN {}
    ELSE IF ~HasMagic(pat) THEN {f \in disk \cup {Dot} : f = pat}
    ELSE {f \in disk : FnMatch(pat, f) /\ (f[1] = "." => pat[1] = ".")}

Exists(path, disk) == path = Dot \/ path \in disk

APy == <<"a", ".", "p", "y">>
BTxt == <<"b", ".", "t", "x", "t">>
CPy == <<"c", ".", "p", "y">>
DPy == <<"d", ".", "p", "y">>

\* The files the working tree may hold.
Files == {APy, BTxt, CPy, DPy}

StarPy == <<"*", ".", "p", "y">>

\* Contents of config/allowlist.txt.
AllowTexts ==
    { JoinLines(<<StarPy, <<>>>>),
      JoinLines(<<APy, CPy, DPy>>),
      JoinLines(<<<<"*">>>>),
      <<>> }

\* Contents of config/denylist.txt.
DenyTexts ==
    { <<>>,
      JoinLines(<<BTxt, DPy, <<>>>>),
      JoinLines(<<<<"c", ".", "*">>>>),
      JoinLines(<<StarPy>>) }

\* Revision arguments, and the revisions the merge-base command prints.
RevArgs == {<<"m">>, <<"t">>}
MergeBases == {<<"b", "1">>, <<"b", "2">>}
Head_ == <<"H", "E", "A", "D">>

\* Name lists the diff and the tree listing print.
DiffLists == {<<>>, <<APy, BTxt, CPy>>, <<CPy, APy>>, <<DPy>>}
TrackedLists == {<<>>, <<APy, BTxt, CPy, DPy>>, <<DPy, APy>>}

\* Exit statuses of the version-control command.
ExitCodes == {0, 1, 128}

NoResult == [kind |-> "none", ref |-> <<>>, list |-> <<>>, set |-> {}]

Raised(kind) == [kind |-> kind, ref |-> <<>>, list |-> <<>>, set |-> {}]

PublicOps ==
    {"getMergeBase", "getChangedFiles", "getAllTrackedFiles", "getGlobsFromFile",
     "getFormattablePaths", "getFilesToFormat", "getTrackedFormattablePaths"}

FirstStep(o) ==
    CASE o \in {"getMergeBase", "getFilesToFormat"} -> "merge-base"
      [] o = "getChangedFiles" -> "diff"
      [] o \in {"getAllTrackedFiles", "getTrackedFormattablePaths"} -> "ls-tree"
      [] o \in {"getGlobsFromFile", "getFormattablePaths"} -> "read"

\* A plausible slip: the non-zero exit is not turned into an exception.
CheckOutputNeverRaises(rc) == FALSE

\* subprocess.check_output raises CalledProcessError on a non-zero exit;
\* the except clause prints a message and re-raises.
CheckOutputRaises(rc) == rc # 0

\* A plausible slip: the existence filter is left out.
KeepAll(paths, disk) == paths

\* changed = [path for path in changed if path.exists()]
KeepExisting(paths, disk) ==
    LET OnDisk(path) == Exists(path, disk) IN SelectSeq(paths, OnDisk)

\* A plausible slip: the denylist is not subtracted.
AllowOnly(allow, deny) == allow

\* allowlistPaths - denylistPaths
AllowMinusDeny(allow, deny) == allow \ deny

\* A plausible slip: union instead of intersection.
ListOrFormattable(list, formattable) == Range(list) \cup formattable

\* set(changedFiles) & formattablePaths, set(trackedFiles) & formattablePaths
ListAndFormattable(list, formattable) == Range(list) \cap formattable

\* The paths of a returned value.
Returned(r) == Range(r.list) \cup r.set

\* A public function is called.
Invoke(o, a, w) ==
    /\ rpc \in {"idle", "done"}
    /\ op' = o
    /\ rpc' = FirstStep(o)
    /\ arg' = IF o \in {"getMergeBase", "getChangedFiles", "getFilesToFormat"}
              THEN a ELSE <<>>
    /\ which' = IF o = "getGlobsFromFile" THEN w ELSE "allowlist"
    /\ mergeBase' = <<>>
    /\ changed' = <<>>
    /\ tracked' = <<>>
    /\ globStrings' = <<>>
    /\ idx' = 1
    /\ pathSet' = {}
    /\ allowlistPaths' = {}
    /\ denylistPaths' = {}
    /\ formattablePaths' = {}
    /\ result' = NoResult
    /\ log' = <<>>
    /\ failedCmd' = "none"
    /\ diffNames' = <<>>
    /\ fsAtStart' = fs
    /\ missingAtReturn' = {}
    /\ UNCHANGED <<fs, allowText, denyText>>

\* The exception leaves the operation: nothing is returned.
Raise(kind) ==
    /\ result' = Raised(kind)
    /\ rpc' = "done"

\* getMergeBase: git merge-base start HEAD
GitMergeBase ==
    /\ rpc = "merge-base"
    /\ log' = Append(log, <<"merge-base", arg, Head_>>)
    /\ \E rc \in ExitCodes, mb \in MergeBases :
          LET out == IF rc = 0 THEN mb \o <<NL>> ELSE <<>> IN
          /\ failedCmd' = IF rc # 0 THEN "merge-base" ELSE failedCmd
          /\ IF CheckOutputRaises(rc)
             THEN Raise("CalledProcessError") /\ UNCHANGED mergeBase
             ELSE /\ mergeBase' = Strip(out)
                  /\ rpc' = IF op = "getMergeBase" THEN "return" ELSE "diff"
                  /\ UNCHANGED result
    /\ UNCHANGED <<fs, allowText, denyText, op, arg, changed, tracked, which,
                   globStrings, idx, pathSet, allowlistPaths, denylistPaths,
                   formattablePaths, diffNames, fsAtStart, missingAtReturn>>

\* getChangedFiles, lines 84-92: git diff --name-only fromCommit HEAD, the
\* output stripped, split on newlines and turned into Paths.
GitDiff ==
    /\ rpc = "diff"
    /\ LET fromCommit == IF op = "getFilesToFormat" THEN mergeBase ELSE arg IN
       log' = Append(log, <<"diff", fromCommit, Head_>>)
    /\ \E rc \in ExitCodes, names \in DiffLists :
          LET out == IF rc = 0 THEN Stdout(names) ELSE <<>>
              pathStrings == SplitLines(Strip(out))
          IN
          /\ failedCmd' = IF rc # 0 THEN "diff" ELSE failedCmd
          /\ diffNames' = IF rc = 0 THEN names ELSE <<>>
          /\ IF CheckOutputRaises(rc)
             THEN Raise("CalledProcessError") /\ UNCHANGED changed
             ELSE /\ changed' = [i \in 1 .. Len(pathStrings) |-> ToPath(pathStrings[i])]
                  /\ rpc' = "exists"
                  /\ UNCHANGED result
    /\ UNCHANGED <<fs, allowText, denyText, op, arg, mergeBase, tracked, which,
                   globStrings, idx, pathSet, allowlistPaths, denylistPaths,
                   formattablePaths, fsAtStart, missingAtReturn>>

\* getChangedFiles, line 93: the paths that exist are kept.
FilterExisting ==
    /\ rpc = "exists"
    /\ changed' = KeepExisting(changed, fs)
    /\ rpc' = IF op = "getChangedFiles" THEN "return" ELSE "read"
    /\ UNCHANGED <<fs, allowText, denyText, op, arg, mergeBase, tracked, which,
                   globStrings, idx, pathSet, allowlistPaths, denylistPaths,
                   formattablePaths, result, log, failedCmd, diffNames,
                   fsAtStart, missingAtReturn>>

\* getAllTrackedFiles: git ls-tree -r --full-tree --name-only HEAD, the
\* output stripped, split on newlines and turned into Paths; no filter.
GitLsTree ==
    /\ rpc = "ls-tree"
    /\ log' = Append(log, <<"ls-tree", Head_>>)
    /\ \E rc \in ExitCodes, names \in TrackedLists :
          LET out == IF rc = 0 THEN Stdout(names) ELSE <<>>
              pathStrings == SplitLines(Strip(out))
          IN
          /\ failedCmd' = IF rc # 0 THEN "ls-tree" ELSE failedCmd
          /\ IF CheckOutputRaises(rc)
             THEN Raise("CalledProcessError") /\ UNCHANGED tracked
             ELSE /\ tracked' = [i \in 1 .. Len(pathStrings) |-> ToPath(pathStrings[i])]
                  /\ rpc' = IF op = "getAllTrackedFiles" THEN "return" ELSE "read"
                  /\ UNCHANGED result
    /\ UNCHANGED <<fs, allowText, denyText, op, arg, mergeBase, changed, which,
                   globStrings, idx, pathSet, allowlistPaths, denylistPaths,
                   formattablePaths, diffNames, fsAtStart, missingAtReturn>>

\* getGlobsFromFile, lines 137-138: the file is read and split on newlines.
ReadGlobList ==
    /\ rpc = "read"
    /\ log' = Append(log, <<"read", which>>)
    /\ globStrings' = SplitLines(IF which = "allowlist" THEN allowText ELSE denyText)
    /\ pathSet' = {}
    /\ idx' = 1
    /\ rpc' = "glob"
    /\ UNCHANGED <<fs, allowText, denyText, op, arg, mergeBase, changed, tracked,
                   which, allowlistPaths, denylistPaths, formattablePaths, result,
                   failedCmd, diffNames, fsAtStart, missingAtReturn>>

\* getGlobsFromFile, lines 139-141: one glob string is expanded against the
\* disk as it is now and its matches are added to the set.
GlobExpand ==
    /\ rpc = "glob"
    /\ idx <= Len(globStrings)
    /\ pathSet' = pathSet \cup {ToPath(s) : s \in Glob(globStrings[idx], fs)}
    /\ idx' = idx + 1
    /\ UNCHANGED <<fs, allowText, denyText, op, rpc, arg, mergeBase, changed,
                   tracked, which, globStrings, allowlistPaths, denylistPaths,
                   formattablePaths, result, log, failedCmd, diffNames,
                   fsAtStart, missingAtReturn>>

\* getGlobsFromFile, lines 142-144: the assertion, then the set goes to the
\* caller (lines 157, 158).
AssertExist ==
    /\ rpc = "glob"
    /\ idx > Len(globStrings)
    /\ IF \A path \in pathSet : Exists(path, fs)
       THEN /\ UNCHANGED result
            /\ IF op = "getGlobsFromFile"
               THEN rpc' = "return" /\ UNCHANGED <<which, allowlistPaths, denylistPaths>>
               ELSE IF which = "allowlist"
               THEN /\ allowlistPaths' = pathSet
                    /\ which' = "denylist"
                    /\ rpc' = "read"
                    /\ UNCHANGED denylistPaths
               ELSE /\ denylistPaths' = pathSet
                    /\ rpc' = "difference"
                    /\ UNCHANGED <<which, allowlistPaths>>
       ELSE /\ Raise("AssertionError")
            /\ UNCHANGED <<which, allowlistPaths, denylistPaths>>
    /\ UNCHANGED <<fs, allowText, denyText, op, arg, mergeBase, changed, tracked,
                   globStrings, idx, pathSet, formattablePaths, log, failedCmd,
                   diffNames, fsAtStart, missingAtReturn>>

\* getFormattablePaths, line 160.
Difference ==
    /\ rpc = "difference"
    /\ formattablePaths' = AllowMinusDeny(allowlistPaths, denylistPaths)
    /\ rpc' = "return"
    /\ UNCHANGED <<fs, allowText, denyText, op, arg, mergeBase, changed, tracked,
                   which, globStrings, idx, pathSet, allowlistPaths, denylistPaths,
                   result, log, failedCmd, diffNames, fsAtStart, missingAtReturn>>

\* The value the public function returns (lines 66, 95, 123, 144, 160, 178,
\* 192).
ReturnValue ==
    CASE op = "getMergeBase" ->
            [kind |-> "ok", ref |-> mergeBase, list |-> <<>>, set |-> {}]
      [] op = "getChangedFiles" ->
            [kind |-> "ok", ref |-> <<>>, list |-> changed, set |-> {}]
      [] op = "getAllTrackedFiles" ->
            [kind |-> "ok", ref |-> <<>>, list |-> tracked, set |-> {}]
      [] op = "getGlobsFromFile" ->
            [kind |-> "ok", ref |-> <<>>, list |-> <<>>, set |-> pathSet]
      [] op = "getFormattablePaths" ->
            [kind |-> "ok", ref |-> <<>>, list |-> <<>>, set |-> formattablePaths]
      [] op = "getFilesToFormat" ->
            [kind |-> "ok", ref |-> <<>>, list |-> <<>>,
             set |-> ListAndFormattable(changed, formattablePaths)]
      [] op = "getTrackedFormattablePaths" ->
            [kind |-> "ok", ref |-> <<>>, list |-> <<>>,
             set |-> ListAndFormattable(tracked, formattablePaths)]

\* The public function returns to its caller.
Return ==
    /\ rpc = "return"
    /\ result' = ReturnValue
    /\ missingAtReturn' = {path \in Returned(ReturnValue) : ~Exists(path, fs)}
    /\ rpc' = "done"
    /\ UNCHANGED <<fs, allowText, denyText, op, arg, mergeBase, changed, tracked,
                   which, globStrings, idx, pathSet, allowlistPaths, denylistPaths,
                   formattablePaths, log, failedCmd, diffNames, fsAtStart>>

\* Another process deletes a file of the working tree while an operation
\* runs. (No operation keeps anything from one call to the next, so a
\* deletion between two calls is a smaller tree at the later call.)
Delete(f) ==
    /\ rpc \notin {"idle", "done"}
    /\ f \in fs
    /\ fs' = fs \ {f}
    /\ UNCHANGED <<allowText, denyText, op, rpc, arg, mergeBase, changed, tracked,
                   which, globStrings, idx, pathSet, allowlistPaths, denylistPaths,
                   formattablePaths, result, log, failedCmd, diffNames, fsAtStart,
                   missingAtReturn>>

InitResolve ==
    /\ fs \in SUBSET Files
    /\ allowText \in AllowTexts
    /\ denyText \in DenyTexts
    /\ op = "idle"
    /\ rpc = "idle"
    /\ arg = <<>>
    /\ mergeBase = <<>>
    /\ changed = <<>>
    /\ tracked = <<>>
    /\ which = "allowlist"
    /\ globStrings = <<>>
    /\ idx = 1
    /\ pathSet = {}
    /\ allowlistPaths = {}
    /\ denylistPaths = {}
    /\ formattablePaths = {}
    /\ result = NoResult
    /\ log = <<>>
    /\ failedCmd = "none"
    /\ diffNames = <<>>
    /\ fsAtStart = fs
    /\ missingAtReturn = {}
    /\ userDirExists = FALSE
    /\ entries = {}
    /\ entries0 = {}
    /\ AllocIdle

NextResolve ==
    \/ \E o \in {"getMergeBase", "getChangedFiles", "getFilesToFormat"}, a \in RevArgs :
          Invoke(o, a, "allowlist") /\ UNCHANGED allocVars
    \/ \E w \in {"allowlist", "denylist"} :
          Invoke("getGlobsFromFile", <<>>, w) /\ UNCHANGED allocVars
    \/ \E o \in {"getAllTrackedFiles", "getFormattablePaths", "getTrackedFormattablePaths"} :
          Invoke(o, <<>>, "allowlist") /\ UNCHANGED allocVars
    \/ GitMergeBase /\ UNCHANGED allocVars
    \/ GitDiff /\ UNCHANGED allocVars
    \/ FilterExisting /\ UNCHANGED allocVars
    \/ GitLsTree /\ UNCHANGED allocVars
    \/ ReadGlobList /\ UNCHANGED allocVars
    \/ GlobExpand /\ UNCHANGED allocVars
    \/ AssertExist /\ UNCHANGED allocVars
    \/ Difference /\ UNCHANGED allocVars
    \/ Return /\ UNCHANGED allocVars
    \/ \E f \in Files : Delete(f) /\ UNCHANGED allocVars

SpecResolve == InitResolve /\ [][NextResolve]_vars

----------------------------------------------------------------------------
(* Properties of the allocator *)

MaxOfSet(S) == CHOOSE m \in S : \A x \in S : x <= m

\* C1: an invocation that listed the numbered entries S chose the revision
\* 0 when S is empty and max(S) + 1 otherwise, gaps not filled; when it
\* returns, it returns <baseDir>/<username>/N for that N, and the directory
\* exists ({0,1,3} gives 4, the empty directory gives 0).
C1_RevisionNumbering ==
    \A p \in Procs :
        LET S == {IntOf(n) : n \in seen[p]}
            N == IF S = {} THEN 0 ELSE MaxOfSet(S) + 1
        IN  /\ pc[p] = "mkdir" => revision[p] = N
            /\ outcome[p].kind = "ok" =>
                  /\ outcome[p].rev = N
                  /\ outcome[p].name = Str(N)
                  /\ outcome[p].name \in entries
                  /\ seen[p] = {} => outcome[p].name = <<"0">>
                  /\ seen[p] = {<<"0">>, <<"1">>, <<"3">>} =>
                         outcome[p].name = <<"4">>

\* Witness of C1: an invocation that listed {0,1,3} has returned.
C1_Witness ==
    \E p \in Procs :
        /\ outcome[p].kind = "ok"
        /\ seen[p] = {<<"0">>, <<"1">>, <<"3">>}

\* A name with no digit in it, such as "scratch".
NonNumeric(n) == Range(n) \cap Digits = {}

\* C2: an invocation that listed an entry with a non-numeric name ended with
\* the ValueError, its diagnostic names a non-numeric entry it listed, and
\* no directory was created: the entries are those before the call.
C2_CorruptionDetected ==
    \A p \in Procs :
        (pc[p] # "iterdir" /\ \E n \in seen[p] : NonNumeric(n)) =>
            /\ pc[p] = "idle"
            /\ outcome[p].kind = "ValueError"
            /\ diag[p] \in seen[p]
            /\ NonNumeric(diag[p])
            /\ entries = entries0
            /\ created = <<>>

\* Witness of C2: an invocation failed on "scratch" among numbered entries.
C2_Witness ==
    \E p \in Procs :
        /\ outcome[p].kind = "ValueError"
        /\ Scratch \in seen[p]
        /\ <<"1">> \in seen[p]
        /\ calls >= 2

\* C3: no two invocations return the same revision directory; of the
\* invocations that computed the same number N at most one succeeded, and
\* one that failed did so with FileExistsError while exactly one invocation
\* created N.
C3_NoDoubleAllocation ==
    /\ \A i, j \in 1 .. Len(created) : i # j => created[i] # created[j]
    /\ \A p, q \in Procs :
          (p # q /\ outcome[p].kind = "ok" /\ outcome[q].kind = "ok") =>
              outcome[p].name # outcome[q].name
    /\ \A p \in Procs :
          (pc[p] = "idle" /\ outcome[p].kind \notin {"none", "ValueError", "ok"}) =>
              /\ outcome[p].kind = "FileExistsError"
              /\ outcome[p].rev = revision[p]
              /\ Cardinality({i \in 1 .. Len(created) : created[i] = revision[p]}) = 1

\* Witness of C3: two invocations computed the same number, one created the
\* directory and the other failed.
C3_Witness ==
    \E p, q \in Procs :
        /\ p # q
        /\ outcome[p].kind = "ok"
        /\ outcome[q].kind = "FileExistsError"
        /\ outcome[p].rev = outcome[q].rev

\* C8: the numbers of the directories created are strictly increasing in
\* order of creation, and each is greater than the number of every directory
\* present at its creation (those present at the start and those created
\* before it).
C8_StrictlyIncreasing ==
    \A i \in 1 .. Len(created) :
        /\ \A j \in 1 .. i - 1 : created[j] < created[i]
        /\ \A n \in entries0 : IsInt(n) => IntOf(n) < created[i]

\* Witness of C8: two directories were created next to earlier ones, with a
\* stale invocation refused in between.
C8_Witness ==
    /\ Len(created) >= 2
    /\ entries0 # {}
    /\ \E p \in Procs : outcome[p].kind = "FileExistsError"

\* Whether a name is a non-negative decimal numeral.
IsNonNegNumeral(n) == n # <<>> /\ \A i \in 1 .. Len(n) : n[i] \in Digits

\* C10: every directory returned has a non-negative number, and every entry
\* the invocation listed parses as a non-negative integer (an entry such as
\* "-3" makes the call fail instead).
C10_OnlyNonNegative ==
    \A p \in Procs :
        outcome[p].kind = "ok" =>
            /\ outcome[p].rev >= 0
            /\ \A n \in seen[p] : IsNonNegNumeral(n)

----------------------------------------------------------------------------
(* Properties of the file-set resolution functions *)

Finished(o) == op = o /\ rpc = "done" /\ result.kind = "ok"

\* The existing files some glob string of a list text matches.
Expansion(text, disk) ==
    {f \in disk : \E i \in 1 .. Len(SplitLines(text)) :
                     LET g == SplitLines(text)[i] IN g # <<>> /\ FnMatch(g, f)}

\* C4: getFormattablePaths returns the allowlisted paths that are not
\* denylisted: no returned path is in the denylist expansion, every path of
\* the allowlist expansion outside the denylist expansion is returned, and
\* on a disk that did not change during the call the result is the files
\* some allowlist glob matches and no denylist glob matches.
C4_SetDifference ==
    Finished("getFormattablePaths") =>
        /\ result.set \cap denylistPaths = {}
        /\ \A path \in allowlistPaths : path \notin denylistPaths => path \in result.set
        /\ result.set \subseteq allowlistPaths
        /\ fs = fsAtStart =>
              result.set = Expansion(allowText, fs) \ Expansion(denyText, fs)

\* Witness of C4: a path is in both expansions and another path is returned.
C4_Witness ==
    /\ Finished("getFormattablePaths")
    /\ allowlistPaths \cap denylistPaths # {}
    /\ result.set # {}

PathOps ==
    {"getGlobsFromFile", "getFormattablePaths", "getChangedFiles",
     "getFilesToFormat", "getTrackedFormattablePaths"}

VcsOps ==
    {"getMergeBase", "getChangedFiles", "getAllTrackedFiles", "getFilesToFormat",
     "getTrackedFormattablePaths"}

\* C5: once a version-control command of an operation has exited non-zero,
\* the operation has ended with CalledProcessError and without any value,
\* nothing was run after the failing command, and in getFilesToFormat a
\* failing merge-base leaves the diff and the glob lists untouched.
C5_FailurePropagates ==
    failedCmd # "none" =>
        /\ op \in VcsOps
        /\ rpc = "done"
        /\ result = [kind |-> "CalledProcessError", ref |-> <<>>,
                     list |-> <<>>, set |-> {}]
        /\ log[Len(log)][1] = failedCmd
        /\ (op = "getFilesToFormat" /\ failedCmd = "merge-base") =>
              /\ Len(log) = 1
              /\ changed = <<>>
              /\ formattablePaths = {}

\* Witness of C5: the diff of getFilesToFormat failed after its merge-base
\* succeeded.
C5_Witness ==
    /\ op = "getFilesToFormat"
    /\ failedCmd = "diff"
    /\ mergeBase # <<>>
    /\ result.kind = "CalledProcessError"

\* C6 as claimed: every path a resolution operation returns is on disk at
\* the moment of the return.
C6_ExistsAtReturn ==
    \A o \in PathOps : Finished(o) => missingAtReturn = {}

\* C6 as amended: every path a resolution operation returns was on disk when
\* the operation was invoked and checked it, and is on disk at the return
\* when no file was deleted during the operation.
C6_ExistedWhenChecked ==
    \A o \in PathOps :
        Finished(o) =>
            /\ \A path \in Returned(result) : Exists(path, fsAtStart)
            /\ missingAtReturn \subseteq fsAtStart \ fs
            /\ fs = fsAtStart => missingAtReturn = {}

\* Witness of C6: getFilesToFormat returned a path deleted during the call.
C6_Witness ==
    /\ Finished("getFilesToFormat")
    /\ missingAtReturn # {}

\* C7: getFilesToFormat returns the paths that are both in the list
\* getChangedFiles returned and in the set getFormattablePaths returned,
\* after running merge-base on (changedSince, HEAD), the diff on that merge
\* base, then the allowlist and the denylist, in that order
\* ({a.py, b.txt, c.py} and {a.py, c.py, d.py} give {a.py, c.py}).
C7_Intersection ==
    Finished("getFilesToFormat") =>
        /\ \A path \in Files \cup {Dot} :
              path \in result.set <=>
                  /\ path \in Range(changed)
                  /\ path \in formattablePaths
        /\ result.set \subseteq Files \cup {Dot}
        /\ log = << <<"merge-base", arg, Head_>>, <<"diff", mergeBase, Head_>>,
                    <<"read", "allowlist">>, <<"read", "denylist">> >>
        /\ mergeBase \in MergeBases
        /\ (Range(changed) = {APy, BTxt, CPy} /\ formattablePaths = {APy, CPy, DPy})
              => result.set = {APy, CPy}

\* Witness of C7: the changed files are a.py, b.txt, c.py and the
\* formattable set is a.py, c.py, d.py.
C7_Witness ==
    /\ Finished("getFilesToFormat")
    /\ Range(changed) = {APy, BTxt, CPy}
    /\ formattablePaths = {APy, CPy, DPy}

\* C9: getChangedFiles returns the paths the diff named that exist, in the
\* diff's order, and no path the diff did not name; when the diff names no
\* file the result is empty.
C9_ChangedFilesExact ==
    Finished("getChangedFiles") =>
        /\ \A path \in Range(result.list) : path \in Range(diffNames)
        /\ \A path \in Range(diffNames) :
              /\ path \in fs => path \in Range(result.list)
              /\ path \notin fsAtStart => path \notin Range(result.list)
        /\ \A i, j \in 1 .. Len(result.list) :
              i < j => \E k, l \in 1 .. Len(diffNames) :
                          /\ k < l
                          /\ diffNames[k] = result.list[i]
                          /\ diffNames[l] = result.list[j]
        /\ diffNames = <<>> => result.list = <<>>

====
